---------------------------- MODULE Spec2Model ----------------------------
(***************************************************************************)
(* The STM32 bootloader client (STM32Communicator) and the serial port it  *)
(* drives (Serial), with one caller thread and the monitor worker thread.  *)
(* Time is counted in milliseconds, as the code's steady_clock arithmetic  *)
(* does.                                                                   *)
(***************************************************************************)
EXTENDS Integers, Sequences, FiniteSets

(***************************************************************************)
(* Program constants.                                                      *)
(***************************************************************************)
ACK == 121
NACK == 31
WRITE_MEMORY == 49
EXTENDED_ERASE == 68
INIT_BYTE == 127
CHUNK_SIZE == 256
MAX_WRITE_LEN == 256
BUFFER_SIZE == 1024
DEFAULT_ACK_TIMEOUT == 1000
HANDSHAKE_TIMEOUT == 1000
ERASE_TIMEOUT == 30000
POLL_SLEEP == 10
READ_TIMEOUT == 1000
PULSE_MS == 100
SETTLE_MS == 100
\* a uint32_t is held as its two 16-bit halves, hi and lo
HALF == 65536

(***************************************************************************)
(* Bounds of the model.                                                    *)
(***************************************************************************)
\* the longest firmware image flashed
MaxSize == 600
\* the longest burst of non-ACK/NACK bytes the device sends in one reply
MaxNoise == 101
\* the most unsolicited bytes buffered in the port at once
MaxRx == 2
\* the most bytes the monitor sink records before the device stops talking
MaxSink == 2

NOISE == 85
LATE == 1500
NoReply == [bytes |-> <<>>, at |-> -1]

(***************************************************************************)
(* Byte arithmetic.                                                        *)
(***************************************************************************)
Bit(x, i) == (x \div (2 ^ i)) % 2

\* uint8_t ^ uint8_t
Xor8(a, b) ==
    LET d(i) == ((Bit(a, i) + Bit(b, i)) % 2) * (2 ^ i)
    IN  d(0) + d(1) + d(2) + d(3) + d(4) + d(5) + d(6) + d(7)

\* ~x on a uint8_t
Not8(x) == 255 - x

\* checksum = packet[0]; for i = 1 .. size-1: checksum ^= packet[i].  Bit i
\* of the result is the parity of the bytes that have bit i set.
XorAll(packet) ==
    LET d(i) == (Cardinality({k \in DOMAIN packet : Bit(packet[k], i) = 1}) % 2)
                * (2 ^ i)
    IN  d(0) + d(1) + d(2) + d(3) + d(4) + d(5) + d(6) + d(7)

\* static_cast<uint8_t>(length - 1)
LenByte(length) == (length - 1) % 256

\* the [opcode, ~opcode] frame of SendCommand and EraseMemory
CommandFrame(cmd) == <<cmd, Not8(cmd)>>

\* the address bytes sent least significant first
AddressFrameLittleEndian(address) ==
    LET a0 == (address.hi \div 256) % 256
        a1 == address.hi % 256
        a2 == (address.lo \div 256) % 256
        a3 == address.lo % 256
    IN  <<a3, a2, a1, a0, Xor8(Xor8(Xor8(a0, a1), a2), a3)>>

\* the five address bytes of SendCommandWithAddress
AddressFrame(address) ==
    LET a0 == (address.hi \div 256) % 256
        a1 == address.hi % 256
        a2 == (address.lo \div 256) % 256
        a3 == address.lo % 256
    IN  <<a0, a1, a2, a3, Xor8(Xor8(Xor8(a0, a1), a2), a3)>>

\* a data packet whose checksum leaves the length byte out
DataFrameChecksumOfData(data) ==
    <<LenByte(Len(data))>> \o data \o <<XorAll(data)>>

\* the data packet of WriteMemory: N-1, the data, the checksum
DataFrame(data) ==
    LET packet == <<LenByte(Len(data))>> \o data
    IN  packet \o <<XorAll(packet)>>

\* a selector whose checksum byte is wrong
EraseFrameBadChecksum(full_erase) == <<255, 255, 255>>

\* a selector that erases page 0 alone when a partial erase is requested
EraseFramePerSector(full_erase) ==
    IF full_erase THEN <<255, 255, 0>> ELSE <<0, 0, 0, 0, 0>>

\* the global-erase selector; both branches of EraseMemory build the same bytes
EraseFrame(full_erase) ==
    IF full_erase THEN <<255, 255, 0>> ELSE <<255, 255, 0>>

(***************************************************************************)
(* Firmware images: the inputs of Flash.                                   *)
(***************************************************************************)
ImageByte(seed, i) == (seed * i + 7 * seed + (i \div 256)) % 256

\* firmware.data
ImageData(fw) == [i \in 1..fw.size |-> ImageByte(fw.seed, i - 1)]

ImageSizes == {1, CHUNK_SIZE, CHUNK_SIZE + 1, MaxSize}
ImageSeeds == {3, 170}
\* 0x08000000, and 0xFFFFFF00 near the end of the address space
FLASH_BASE == [hi |-> 2048, lo |-> 0]
StartAddresses == {FLASH_BASE, [hi |-> 65535, lo |-> 65280]}

Firmwares ==
    [start_address : StartAddresses, size : ImageSizes \cup {0}, seed : ImageSeeds]

(***************************************************************************)
(* std::to_string of the address, and the number a reader of "0x<digits>"  *)
(* takes those digits for.                                                 *)
(***************************************************************************)
RECURSIVE Digits(_, _)
\* the digits of n in the given base, most significant first
Digits(n, base) ==
    IF n < base THEN <<n>> ELSE Digits(n \div base, base) \o <<n % base>>

\* digits, left-padded with zeros to `width`
Pad(digits, width) == [i \in 1..(width - Len(digits)) |-> 0] \o digits

\* std::to_string(address): the decimal digits of hi * 65536 + lo, worked in
\* two five-digit halves
to_string(address) ==
    LET a == address.hi * 32768
        low == 2 * (a % 100000) + address.lo
        high == 2 * (a \div 100000) + low \div 100000
    IN  IF high = 0 THEN Digits(low % 100000, 10)
        ELSE Digits(high, 10) \o Pad(Digits(low % 100000, 10), 5)

\* the hexadecimal digits of the address, which "0x" announces
HexDigits(address) ==
    IF address.hi = 0 THEN Digits(address.lo, 16)
    ELSE Digits(address.hi, 16) \o Pad(Digits(address.lo, 16), 4)


(***************************************************************************)
(* State.                                                                  *)
(***************************************************************************)
VARIABLES
    \* STM32Communicator
    is_connected_, port_name_, last_error_, monitoring_active_, serial_mutex_,
    data_callback_, monitor_thread_,
    \* Serial
    is_open_,
    \* the caller thread: the public operation it is in and where
    op, pc, args, result,
    \* Flash's locals
    total_written, address,
    \* WriteMemory's arguments
    wm,
    \* WaitForAck's frame: timeout_ms, elapsed, the label it returns to, the
    \* bytes it has read, and its return value
    wait, ack,
    \* the monitor worker's locals: bytes_read and buffer
    bytes_read, buffer,
    \* the port: bytes received and not yet read, the device's reply on its
    \* way, and whether the line still works
    rx, inflight, line_ok,
    \* what the current operation has done, in order
    trace,
    \* what the sink has been handed by the worker that is running or not yet
    \* joined
    sink,
    \* history, kept by no field of the program: an EnterBootloader has
    \* returned true since the last Connect that returned true
    bootloader_ready

engine == <<is_connected_, port_name_, last_error_, monitoring_active_,
            serial_mutex_, data_callback_, monitor_thread_, is_open_>>
caller == <<op, pc, args, result, total_written, address, wm, wait, ack>>
worker == <<bytes_read, buffer>>
port == <<rx, inflight, line_ok>>
vars == <<engine, caller, worker, port, trace, sink, bootloader_ready>>

Ports == {"ttyUSB0", "nodev"}
NoArgs == [firmware |-> [start_address |-> [hi |-> 0, lo |-> 0], size |-> 0, seed |-> 0],
           flag |-> FALSE, port_name |-> ""]
NoWait == [timeout_ms |-> 0, elapsed |-> 0, ret |-> "none", seen |-> <<>>,
           rx_at |-> 0]
NoWrite == [address |-> [hi |-> 0, lo |-> 0], data |-> <<>>]
NoError == [text |-> "", arg |-> <<>>]
Error(text) == [text |-> text, arg |-> <<>>]

Init ==
    /\ is_connected_ = FALSE
    /\ port_name_ = ""
    /\ last_error_ = NoError
    /\ monitoring_active_ = FALSE
    /\ serial_mutex_ = "free"
    /\ data_callback_ = FALSE
    /\ monitor_thread_ = "none"
    /\ is_open_ = FALSE
    /\ op = "none"
    /\ pc = "idle"
    /\ args = NoArgs
    /\ result = "none"
    /\ total_written = 0
    /\ address = [hi |-> 0, lo |-> 0]
    /\ wm = NoWrite
    /\ wait = NoWait
    /\ ack = FALSE
    /\ bytes_read = 0
    /\ buffer = <<>>
    /\ rx = <<>>
    /\ inflight = NoReply
    /\ line_ok = TRUE
    /\ trace = <<>>
    /\ sink = <<>>
    /\ bootloader_ready = FALSE


(***************************************************************************)
(* The device and the line.                                                *)
(***************************************************************************)
Noise(n) == [i \in 1..n |-> NOISE]

\* what the device may answer to a frame: nothing, or some bytes that reach
\* the port `at` milliseconds after the frame was written
BasicReplies ==
    {NoReply, [bytes |-> <<ACK>>, at |-> 0], [bytes |-> <<NACK>>, at |-> 0]}

Replies ==
    BasicReplies
    \cup {[bytes |-> Noise(n) \o t, at |-> d] :
            n \in {0, 1}, t \in {<<ACK>>, <<NACK>>}, d \in {0, LATE}}
    \cup {[bytes |-> Noise(1), at |-> 0], [bytes |-> <<ACK, NOISE>>, at |-> 0]}
    \cup {[bytes |-> Noise(MaxNoise) \o t, at |-> 0] :
            t \in {<<ACK>>, <<NACK>>, <<>>}}

\* the port after dt milliseconds have passed at time `now` of the current wait
Advance(r, f, w, dt) ==
    IF f.at >= 0 /\ f.at <= dt
    THEN [rx |-> r \o f.bytes, inflight |-> NoReply,
          wait |-> [w EXCEPT !.rx_at = w.elapsed + f.at]]
    ELSE [rx |-> r,
          inflight |-> IF f.at >= 0 THEN [f EXCEPT !.at = f.at - dt] ELSE f,
          wait |-> w]

\* how long select() in Serial::Read blocks
BlockTime(r, f) ==
    IF r # <<>> THEN 0
    ELSE IF f.at >= 0 /\ f.at < READ_TIMEOUT THEN f.at
    ELSE READ_TIMEOUT

\* the return values Serial::Write may give for a frame
WriteResults(frame) ==
    IF is_open_ /\ line_ok THEN {Len(frame), Len(frame) \div 2} ELSE {-1}

Ev(ev, bytes, a, b, r) == [ev |-> ev, bytes |-> bytes, a |-> a, b |-> b, r |-> r]

\* the trace after Serial::Write(frame) returned n
Written(frame, n) ==
    Append(trace, Ev("write", IF n > 0 THEN SubSeq(frame, 1, n) ELSE <<>>,
                     Len(frame), n, ""))


(***************************************************************************)
(* The caller thread.  A public operation starts at "idle", runs through   *)
(* its labels and ends at "done" with its result; Return hands the result  *)
(* to the caller and forgets the operation's frame.                        *)
(***************************************************************************)
\* a lock that is let go before the operation's work
LockGuardDropped == "free"

\* std::lock_guard<std::mutex> lock(serial_mutex_): who holds the mutex until
\* the operation returns
LockGuard == "caller"

SetError(error) == last_error_' = error

\* return res from a public operation; the lock_guard releases the mutex
Finish(res) ==
    /\ pc' = "done"
    /\ result' = res
    /\ serial_mutex_' = "free"

\* an operation that goes on without a session
NotConnectedIgnored == FALSE

\* if (!is_connected_), the test at the head of every operation on the port
NotConnected == ~is_connected_

\* return false with an error set
Fail(error) == Finish("false") /\ SetError(error)

\* call WaitForAck(timeout_ms) and come back at label cont
Call_WaitForAck(timeout, cont) ==
    /\ pc' = "wait"
    /\ wait' = [timeout_ms |-> timeout, elapsed |-> 0, ret |-> cont,
                seen |-> <<>>, rx_at |-> 0]

\* the test with its comparison turned round
TimedOutReversed(elapsed, timeout) == elapsed <= timeout

\* the test that ends WaitForAck's loop
TimedOut(elapsed, timeout) == elapsed >= timeout

\* a NACK taken for any other byte
IsNackIgnored(response) == FALSE

\* whether WaitForAck returns on this byte, and what
IsAck(response) == response = ACK
IsNack(response) == response = NACK

\* one iteration of WaitForAck's loop: Read(&response, 1), the two tests, the
\* elapsed-time test and the sleep
WaitForAck ==
    /\ pc = "wait"
    /\ LET dt == IF line_ok THEN BlockTime(rx, inflight) ELSE 0
           p == Advance(rx, inflight, wait, dt)
           got == line_ok /\ p.rx # <<>>
           response == IF got THEN Head(p.rx) ELSE -1
           rest == IF got THEN Tail(p.rx) ELSE p.rx
           now == wait.elapsed + dt
           w1 == [p.wait EXCEPT !.elapsed = now,
                                !.seen = IF got THEN Append(@, response) ELSE @]
           Ret(value, why) ==
               /\ ack' = value
               /\ pc' = wait.ret
               /\ wait' = w1
               /\ rx' = rest
               /\ inflight' = p.inflight
               /\ trace' = Append(trace,
                                  Ev("wait", <<>>, wait.timeout_ms, 0, why))
       IN  IF got /\ IsAck(response) THEN Ret(TRUE, "ack")
           ELSE IF got /\ IsNack(response) THEN Ret(FALSE, "nack")
           ELSE IF TimedOut(now, wait.timeout_ms) THEN Ret(FALSE, "timeout")
           ELSE LET q == Advance(rest, p.inflight, w1, POLL_SLEEP)
                IN  /\ wait' = [q.wait EXCEPT !.elapsed = now + POLL_SLEEP]
                    /\ rx' = q.rx
                    /\ inflight' = q.inflight
                    /\ UNCHANGED <<ack, pc, trace>>
    /\ UNCHANGED <<engine, op, args, result, total_written, address, wm,
                   worker, line_ok, sink>>
    /\ UNCHANGED bootloader_ready

\* a test that takes any bytes written for the whole frame
WholeFrameOrPart(frame, n) == n > 0

\* serial_.Write(frame, size) != size, negated
WholeFrame(frame, n) == n = Len(frame)

\* Serial::Write(frame) returned n inside a helper (EraseMemory, SendCommand,
\* SendCommandWithAddress, WriteMemory): WaitForAck(timeout) when the whole
\* frame went out, else the helper returns false to label back
WriteThenWait(frame, n, r, timeout, cont, back) ==
    /\ trace' = Written(frame, n)
    /\ IF WholeFrame(frame, n)
       THEN /\ inflight' = r
            /\ Call_WaitForAck(timeout, cont)
            /\ UNCHANGED ack
       ELSE /\ ack' = FALSE
            /\ pc' = back
            /\ UNCHANGED <<inflight, wait>>

\* a helper returns false to label back without touching the port
ReturnFalse(back) ==
    /\ ack' = FALSE
    /\ pc' = back
    /\ UNCHANGED <<trace, inflight, wait>>

\* a pulse that drives the line the other way
PulseDTRActiveHigh(duration_ms, active_low, ok) ==
    IF ~ok THEN <<Ev("dtr", <<>>, 1, 0, "failed")>>
    ELSE <<Ev("dtr", <<>>, 1, 0, "ok"),
           Ev("sleep", <<>>, duration_ms, 0, ""),
           Ev("dtr", <<>>, 0, 0, "ok")>>

\* Serial::PulseDTR(duration_ms, active_low): SetDTR(pulsed_state), the wait,
\* SetDTR(initial_state); a SetDTR whose ioctl fails ends it
PulseDTR(duration_ms, active_low, ok) ==
    LET initial_state == IF active_low THEN 1 ELSE 0
        pulsed_state == 1 - initial_state
    IN  IF ~ok THEN <<Ev("dtr", <<>>, pulsed_state, 0, "failed")>>
        ELSE <<Ev("dtr", <<>>, pulsed_state, 0, "ok"),
               Ev("sleep", <<>>, duration_ms, 0, ""),
               Ev("dtr", <<>>, initial_state, 0, "ok")>>

EnterBootloader(pulse_dtr, R) ==
    /\ pc = "idle"
    /\ serial_mutex_ = "free"
    /\ op' = "EnterBootloader"
    /\ args' = [NoArgs EXCEPT !.flag = pulse_dtr]
    /\ IF NotConnected
       THEN /\ Fail(Error("Not connected to any port"))
            /\ UNCHANGED <<trace, rx, inflight, wait>>
       ELSE IF pulse_dtr /\ ~line_ok
       THEN \* PulseDTR: the modem-line ioctl fails
            /\ Fail(Error("Failed to pulse DTR: "))
            /\ trace' = PulseDTR(PULSE_MS, TRUE, FALSE)
            /\ UNCHANGED <<rx, inflight, wait>>
       ELSE LET before ==
                    (IF pulse_dtr
                     THEN PulseDTR(PULSE_MS, TRUE, TRUE)
                            \o <<Ev("sleep", <<>>, SETTLE_MS, 0, "")>>
                     ELSE <<>>) \o <<Ev("flush", <<>>, 0, 0, "")>>
                frame == <<INIT_BYTE>>
            IN  \E n \in WriteResults(frame), r \in R :
                  /\ rx' = <<>>
                  /\ trace' = Append(before,
                                Ev("write", IF n > 0 THEN SubSeq(frame, 1, n) ELSE <<>>,
                                   Len(frame), n, ""))
                  /\ IF WholeFrame(frame, n)
                     THEN /\ inflight' = r
                          /\ Call_WaitForAck(HANDSHAKE_TIMEOUT, "EB_ack")
                          /\ serial_mutex_' = LockGuard
                          /\ UNCHANGED <<last_error_, result>>
                     ELSE /\ Fail(Error("Failed to send init byte"))
                          /\ UNCHANGED <<inflight, wait>>
    /\ UNCHANGED <<is_connected_, port_name_, monitoring_active_, data_callback_,
                   monitor_thread_, is_open_, total_written, address, wm, ack,
                   worker, line_ok, sink>>
    /\ UNCHANGED bootloader_ready

\* EnterBootloader after its WaitForAck(1000)
EnterBootloader_Ack ==
    /\ pc = "EB_ack"
    /\ IF ack
       THEN Finish("true") /\ UNCHANGED last_error_
       ELSE Fail(Error("No ACK received from bootloader"))
    /\ bootloader_ready' = (ack \/ bootloader_ready)
    /\ UNCHANGED <<is_connected_, port_name_, monitoring_active_, data_callback_,
                   monitor_thread_, is_open_, op, args, total_written, address,
                   wm, wait, ack, worker, port, trace, sink>>


\* a chunk size that is one short of CHUNK_SIZE for every full chunk
ChunkSizeOneShort(size, written) ==
    IF size - written < CHUNK_SIZE THEN size - written ELSE CHUNK_SIZE - 1

\* remaining < CHUNK_SIZE ? remaining : CHUNK_SIZE
ChunkSize(size, written) ==
    IF size - written < CHUNK_SIZE THEN size - written ELSE CHUNK_SIZE

\* a chunk taken from the head of the image whatever has been written
ChunkFromStart(data, written, chunk_size) == SubSeq(data, 1, chunk_size)

\* firmware.data.data() + total_written, chunk_size bytes of it
Chunk(data, written, chunk_size) ==
    SubSeq(data, written + 1, written + chunk_size)

\* an address that stops at 0xFFFFFFFF instead of wrapping
NextAddressSaturated(a, chunk_size) ==
    IF a.hi = HALF - 1 /\ a.lo + chunk_size >= HALF
    THEN [hi |-> HALF - 1, lo |-> HALF - 1]
    ELSE [hi |-> a.hi + (a.lo + chunk_size) \div HALF,
          lo |-> (a.lo + chunk_size) % HALF]

\* address += chunk_size on a uint32_t
NextAddress(a, chunk_size) ==
    [hi |-> (a.hi + (a.lo + chunk_size) \div HALF) % HALF,
     lo |-> (a.lo + chunk_size) % HALF]

\* the division done before the multiplication
ProgressDividedFirst(written, size) == (written \div size) * 100

\* (total_written * 100) / firmware.data.size()
Progress(written, size) == (written * 100) \div size

\* the result of EraseMemory is not looked at
EraseFailedIgnored(ok) == FALSE

\* if (!EraseMemory(erase_all))
EraseFailed(ok) == ~ok

\* if (!WriteMemory(address, ..., chunk_size))
ChunkFailed(ok) == ~ok

EraseError == Error("Failed to erase memory")
WriteError(a) ==
    [text |-> "Failed to write memory at address 0x", arg |-> to_string(a)]

\* Flash up to EraseMemory's first WaitForAck
Flash(firmware, erase_all, R) ==
    /\ pc = "idle"
    /\ serial_mutex_ = "free"
    /\ op' = "Flash"
    /\ args' = [NoArgs EXCEPT !.firmware = firmware, !.flag = erase_all]
    /\ IF NotConnected
       THEN /\ Fail(Error("Not connected to any port"))
            /\ UNCHANGED <<trace, inflight, wait, ack>>
       ELSE IF firmware.size = 0
       THEN /\ Fail(Error("Firmware data is empty"))
            /\ UNCHANGED <<trace, inflight, wait, ack>>
       ELSE /\ \E n \in WriteResults(CommandFrame(EXTENDED_ERASE)), r \in R :
                 WriteThenWait(CommandFrame(EXTENDED_ERASE), n, r,
                               DEFAULT_ACK_TIMEOUT, "ER_cmd", "ER_ret")
            /\ serial_mutex_' = LockGuard
            /\ UNCHANGED <<last_error_, result>>
    /\ UNCHANGED <<is_connected_, port_name_, monitoring_active_, data_callback_,
                   monitor_thread_, is_open_, total_written, address, wm,
                   worker, rx, line_ok, sink>>
    /\ UNCHANGED bootloader_ready

\* EraseMemory after the command's WaitForAck: the selector and the long wait
EraseMemory(R) ==
    /\ pc = "ER_cmd"
    /\ IF ~ack
       THEN ReturnFalse("ER_ret")
       ELSE \E n \in WriteResults(EraseFrame(args.flag)), r \in R :
              WriteThenWait(EraseFrame(args.flag), n, r,
                            ERASE_TIMEOUT, "ER_ret", "ER_ret")
    /\ UNCHANGED <<engine, op, args, result, total_written, address, wm,
                   worker, rx, line_ok, sink>>
    /\ UNCHANGED bootloader_ready

\* Flash after EraseMemory returned: the error, or the loop's initialisation
Flash_Erased ==
    /\ pc = "ER_ret"
    /\ IF EraseFailed(ack)
       THEN /\ Fail(EraseError)
            /\ UNCHANGED <<total_written, address>>
       ELSE /\ total_written' = 0
            /\ address' = args.firmware.start_address
            /\ pc' = "FL_loop"
            /\ UNCHANGED <<last_error_, result, serial_mutex_>>
    /\ UNCHANGED <<is_connected_, port_name_, monitoring_active_, data_callback_,
                   monitor_thread_, is_open_, op, args, wm, wait, ack, worker,
                   port, trace, sink>>
    /\ UNCHANGED bootloader_ready

\* the while test of Flash, and the call of WriteMemory for the next chunk
Flash_Loop ==
    /\ pc = "FL_loop"
    /\ IF total_written < args.firmware.size
       THEN LET chunk_size == ChunkSize(args.firmware.size, total_written)
            IN  /\ wm' = [address |-> address,
                          data |-> Chunk(ImageData(args.firmware),
                                         total_written, chunk_size)]
                /\ pc' = "WM_begin"
                /\ trace' = Append(trace, Ev("call", <<>>, address, chunk_size, ""))
                /\ UNCHANGED <<last_error_, result, serial_mutex_>>
       ELSE /\ Finish("true")
            /\ UNCHANGED <<last_error_, wm, trace>>
    /\ UNCHANGED <<is_connected_, port_name_, monitoring_active_, data_callback_,
                   monitor_thread_, is_open_, op, args, total_written, address,
                   wait, ack, worker, port, sink>>
    /\ UNCHANGED bootloader_ready

\* a length test that lets 257 bytes through
BadLengthOffByOne(length) == length = 0 \/ length > MAX_WRITE_LEN + 1

\* length == 0 || length > 256
BadLength(length) == length = 0 \/ length > MAX_WRITE_LEN

\* WriteMemory: the length test, then SendCommand(WRITE_MEMORY)
WriteMemory(R) ==
    /\ pc = "WM_begin"
    /\ IF BadLength(Len(wm.data))
       THEN ReturnFalse("WM_ret")
       ELSE \E n \in WriteResults(CommandFrame(WRITE_MEMORY)), r \in R :
              WriteThenWait(CommandFrame(WRITE_MEMORY), n, r,
                            DEFAULT_ACK_TIMEOUT, "WM_cmd", "WM_ret")
    /\ UNCHANGED <<engine, op, args, result, total_written, address, wm,
                   worker, rx, line_ok, sink>>
    /\ UNCHANGED bootloader_ready

\* SendCommandWithAddress after the command was answered: the address frame
SendCommandWithAddress(R) ==
    /\ pc = "WM_cmd"
    /\ IF ~ack
       THEN ReturnFalse("WM_ret")
       ELSE \E n \in WriteResults(AddressFrame(wm.address)), r \in R :
              WriteThenWait(AddressFrame(wm.address), n, r,
                            DEFAULT_ACK_TIMEOUT, "WM_addr", "WM_ret")
    /\ UNCHANGED <<engine, op, args, result, total_written, address, wm,
                   worker, rx, line_ok, sink>>
    /\ UNCHANGED bootloader_ready

\* WriteMemory after SendCommandWithAddress returned: the data packet
WriteMemory_Data(R) ==
    /\ pc = "WM_addr"
    /\ IF ~ack
       THEN ReturnFalse("WM_ret")
       ELSE \E n \in WriteResults(DataFrame(wm.data)), r \in R :
              WriteThenWait(DataFrame(wm.data), n, r,
                            DEFAULT_ACK_TIMEOUT, "WM_ret", "WM_ret")
    /\ UNCHANGED <<engine, op, args, result, total_written, address, wm,
                   worker, rx, line_ok, sink>>
    /\ UNCHANGED bootloader_ready

\* Flash after WriteMemory returned: the error, or the counters and the
\* progress line
Flash_Written ==
    /\ pc = "WM_ret"
    /\ op = "Flash"
    /\ IF ChunkFailed(ack)
       THEN /\ Fail(WriteError(address))
            /\ UNCHANGED <<total_written, address, trace>>
       ELSE LET chunk_size == Len(wm.data)
            IN  /\ total_written' = total_written + chunk_size
                /\ address' = NextAddress(address, chunk_size)
                /\ trace' = Append(trace,
                              Ev("progress", <<>>,
                                 Progress(total_written + chunk_size,
                                          args.firmware.size), 0, ""))
                /\ pc' = "FL_loop"
                /\ UNCHANGED <<last_error_, result, serial_mutex_>>
    /\ UNCHANGED <<is_connected_, port_name_, monitoring_active_, data_callback_,
                   monitor_thread_, is_open_, op, args, wm, wait, ack, worker,
                   port, sink>>
    /\ UNCHANGED bootloader_ready

\* WriteMemory(address, data, length) called on its own on a connected
\* session, with the mutex held as Flash holds it
Call_WriteMemory(a, data) ==
    /\ pc = "idle"
    /\ serial_mutex_ = "free"
    /\ is_connected_
    /\ op' = "WriteMemory"
    /\ wm' = [address |-> a, data |-> data]
    /\ pc' = "WM_begin"
    /\ serial_mutex_' = LockGuard
    /\ trace' = <<Ev("call", <<>>, a, Len(data), "")>>
    /\ UNCHANGED <<is_connected_, port_name_, last_error_, monitoring_active_,
                   data_callback_, monitor_thread_, is_open_, args, result,
                   total_written, address, wait, ack, worker, port, sink>>
    /\ UNCHANGED bootloader_ready

\* WriteMemory called on its own returns
Return_WriteMemory ==
    /\ pc = "WM_ret"
    /\ op = "WriteMemory"
    /\ Finish(IF ack THEN "true" ELSE "false")
    /\ UNCHANGED <<is_connected_, port_name_, last_error_, monitoring_active_,
                   data_callback_, monitor_thread_, is_open_, op, args,
                   total_written, address, wm, wait, ack, worker, port, trace,
                   sink>>
    /\ UNCHANGED bootloader_ready


\* return res from an operation that holds no lock when it returns
Done(res) ==
    /\ pc' = "done"
    /\ result' = res

\* Serial::Open: the named port exists and answers
OpenResult(port_name) == ~is_open_ /\ port_name = "ttyUSB0" /\ line_ok

\* a Connect that does not look at the connected flag
AlreadyConnectedIgnored == FALSE

\* if (is_connected_) at the top of Connect
AlreadyConnected == is_connected_

Connect(port_name) ==
    /\ pc = "idle"
    /\ serial_mutex_ = "free"
    /\ op' = "Connect"
    /\ args' = [NoArgs EXCEPT !.port_name = port_name]
    /\ trace' = <<>>
    /\ IF AlreadyConnected
       THEN /\ Fail(Error("Already connected. Disconnect first."))
            /\ UNCHANGED <<is_connected_, port_name_, is_open_, rx>>
       ELSE IF ~OpenResult(port_name)
       THEN /\ Fail(Error("Failed to open port: "))
            /\ UNCHANGED <<is_connected_, port_name_, is_open_, rx>>
       ELSE /\ is_open_' = TRUE
            /\ rx' = <<>>
            /\ port_name_' = port_name
            /\ is_connected_' = TRUE
            /\ Finish("true")
            /\ UNCHANGED last_error_
    /\ bootloader_ready' = (is_connected_ /\ bootloader_ready)
    /\ UNCHANGED <<monitoring_active_, data_callback_, monitor_thread_,
                   total_written, address, wm, wait, ack, worker, inflight,
                   line_ok, sink>>

\* monitor_thread_.joinable()
Joinable == monitor_thread_ # "none"

\* the body of StopMonitoring up to join(); next is the label after it
StopMonitoring_Body(next) ==
    IF monitoring_active_
    THEN /\ monitoring_active_' = FALSE
         /\ pc' = IF Joinable THEN "join" ELSE next
    ELSE /\ pc' = next
         /\ UNCHANGED monitoring_active_

StopMonitoring ==
    /\ pc = "idle"
    /\ op' = "StopMonitoring"
    /\ StopMonitoring_Body("SM_ret")
    /\ UNCHANGED <<is_connected_, port_name_, last_error_, serial_mutex_,
                   data_callback_, monitor_thread_, is_open_, args, result,
                   total_written, address, wm, wait, ack, worker, port, trace,
                   sink>>
    /\ UNCHANGED bootloader_ready

\* a join() that does not wait for the worker
JoinReadyAtOnce == TRUE

\* when monitor_thread_.join() returns
JoinReady == monitor_thread_ = "exited"

\* join() returns once the worker's function has returned
Join ==
    /\ pc = "join"
    /\ JoinReady
    /\ monitor_thread_' = IF monitor_thread_ = "exited" THEN "none" ELSE monitor_thread_
    /\ pc' = IF op = "Disconnect" THEN "DC_lock" ELSE "SM_ret"
    /\ sink' = <<>>
    /\ trace' = Append(trace, Ev("join", <<>>, 0, 0, ""))
    /\ UNCHANGED <<is_connected_, port_name_, last_error_, monitoring_active_,
                   serial_mutex_, data_callback_, is_open_, op, args, result,
                   total_written, address, wm, wait, ack, worker, port>>
    /\ UNCHANGED bootloader_ready

StopMonitoring_Return ==
    /\ pc = "SM_ret"
    /\ Done("void")
    /\ UNCHANGED <<engine, op, args, total_written, address, wm, wait, ack,
                   worker, port, trace, sink>>
    /\ UNCHANGED bootloader_ready

\* Disconnect up to its lock_guard: the call of StopMonitoring
Disconnect ==
    /\ pc = "idle"
    /\ op' = "Disconnect"
    /\ StopMonitoring_Body("DC_lock")
    /\ UNCHANGED <<is_connected_, port_name_, last_error_, serial_mutex_,
                   data_callback_, monitor_thread_, is_open_, args, result,
                   total_written, address, wm, wait, ack, worker, port, trace,
                   sink>>
    /\ UNCHANGED bootloader_ready

\* the test of Disconnect turned round
NeedsCloseInverted == ~is_connected_

\* if (is_connected_) in Disconnect
NeedsClose == is_connected_

\* Disconnect from its lock_guard on
Disconnect_Close ==
    /\ pc = "DC_lock"
    /\ serial_mutex_ = "free"
    /\ IF NeedsClose
       THEN /\ is_open_' = FALSE
            /\ is_connected_' = FALSE
            /\ port_name_' = ""
            /\ rx' = <<>>
       ELSE UNCHANGED <<is_open_, is_connected_, port_name_, rx>>
    /\ Finish("void")
    /\ bootloader_ready' = FALSE
    /\ UNCHANGED <<last_error_, monitoring_active_, data_callback_,
                   monitor_thread_, op, args, total_written, address, wm, wait,
                   ack, worker, inflight, line_ok, trace, sink>>

StartMonitoring(callback) ==
    /\ pc = "idle"
    /\ op' = "StartMonitoring"
    /\ args' = [NoArgs EXCEPT !.flag = callback]
    /\ IF monitoring_active_
       THEN /\ Done("false")
            /\ SetError(Error("Monitoring already active"))
            /\ UNCHANGED <<data_callback_, monitoring_active_, monitor_thread_, sink>>
       ELSE IF NotConnected
       THEN /\ Done("false")
            /\ SetError(Error("Not connected to any port"))
            /\ UNCHANGED <<data_callback_, monitoring_active_, monitor_thread_, sink>>
       ELSE /\ data_callback_' = callback
            /\ monitoring_active_' = TRUE
            /\ monitor_thread_' = "loop"
            /\ sink' = <<>>
            /\ Done("true")
            /\ UNCHANGED last_error_
    /\ UNCHANGED <<is_connected_, port_name_, serial_mutex_, is_open_,
                   total_written, address, wm, wait, ack, worker, port, trace>>
    /\ UNCHANGED bootloader_ready

\* StartMonitoring called from a second thread while the caller thread is
\* inside EnterBootloader or Flash: it takes no lock, so it runs at once
StartMonitoring_During(callback) ==
    /\ op \in {"EnterBootloader", "Flash"}
    /\ pc \notin {"idle", "done"}
    /\ is_connected_
    /\ ~monitoring_active_
    /\ data_callback_' = callback
    /\ monitoring_active_' = TRUE
    /\ monitor_thread_' = "loop"
    /\ sink' = <<>>
    /\ UNCHANGED <<is_connected_, port_name_, last_error_, serial_mutex_,
                   is_open_, op, pc, args, result, total_written, address, wm,
                   wait, ack, bytes_read, buffer, port, trace>>
    /\ UNCHANGED bootloader_ready

Send(data) ==
    /\ pc = "idle"
    /\ serial_mutex_ = "free"
    /\ op' = "Send"
    /\ IF NotConnected
       THEN /\ Finish("-1")
            /\ SetError(Error("Not connected to any port"))
            /\ trace' = <<>>
       ELSE \E n \in WriteResults(data) :
              /\ trace' = <<Ev("write", IF n > 0 THEN SubSeq(data, 1, n) ELSE <<>>,
                               Len(data), n, "")>>
              /\ Finish(IF n < 0 THEN "-1" ELSE "count")
              /\ UNCHANGED last_error_
    /\ UNCHANGED <<is_connected_, port_name_, monitoring_active_, data_callback_,
                   monitor_thread_, is_open_, args, total_written, address, wm,
                   wait, ack, worker, port, sink>>
    /\ UNCHANGED bootloader_ready

\* the caller has the result; the operation's frame is gone, and so is a
\* reply the device had not sent yet
Return ==
    /\ pc = "done"
    /\ pc' = "idle"
    /\ op' = "none"
    /\ args' = NoArgs
    /\ result' = "none"
    /\ total_written' = 0
    /\ address' = [hi |-> 0, lo |-> 0]
    /\ wm' = NoWrite
    /\ wait' = NoWait
    /\ ack' = FALSE
    /\ inflight' = NoReply
    /\ trace' = <<>>
    /\ UNCHANGED <<engine, worker, rx, line_ok, sink>>
    /\ UNCHANGED bootloader_ready

(***************************************************************************)
(* The monitor worker: MonitorThreadFunc.                                  *)
(***************************************************************************)
\* a loop that does not look at the flag
LoopTestAlways == TRUE

\* while (monitoring_active_)
LoopTest == monitoring_active_

\* the loop test of MonitorThreadFunc
Monitor_Loop ==
    /\ monitor_thread_ = "loop"
    /\ monitor_thread_' = IF LoopTest THEN "lock" ELSE "exited"
    /\ UNCHANGED <<is_connected_, port_name_, last_error_, monitoring_active_,
                   serial_mutex_, data_callback_, is_open_, caller, worker,
                   port, trace, sink>>
    /\ UNCHANGED bootloader_ready

\* the lock_guard of the loop body and the is_connected_ test under it
Monitor_Lock ==
    /\ monitor_thread_ = "lock"
    /\ serial_mutex_ = "free"
    /\ IF ~is_connected_
       THEN /\ monitor_thread_' = "exited"
            /\ UNCHANGED serial_mutex_
       ELSE /\ monitor_thread_' = "reading"
            /\ serial_mutex_' = "worker"
    /\ UNCHANGED <<is_connected_, port_name_, last_error_, monitoring_active_,
                   data_callback_, is_open_, caller, worker, port, trace, sink>>
    /\ UNCHANGED bootloader_ready

\* serial_.Read(buffer, BUFFER_SIZE) and the end of the locked block
Monitor_Read ==
    /\ monitor_thread_ = "reading"
    /\ LET n == IF Len(rx) < BUFFER_SIZE THEN Len(rx) ELSE BUFFER_SIZE
       IN  IF ~is_open_ \/ ~line_ok
           THEN /\ bytes_read' = -1
                /\ UNCHANGED <<buffer, rx>>
           ELSE /\ bytes_read' = n
                /\ buffer' = SubSeq(rx, 1, n)
                /\ rx' = SubSeq(rx, n + 1, Len(rx))
    /\ serial_mutex_' = "free"
    /\ monitor_thread_' = "handle"
    /\ UNCHANGED <<is_connected_, port_name_, last_error_, monitoring_active_,
                   data_callback_, is_open_, caller, inflight, line_ok, trace,
                   sink>>
    /\ UNCHANGED bootloader_ready

\* the bytes handed over a second time
ForwardTwice(buf, n) ==
    LET to == IF data_callback_ THEN "callback" ELSE "stdout"
    IN  [i \in 1..(2 * n) |-> [to |-> to, byte |-> buf[((i - 1) % n) + 1]]]

\* data_callback_(buffer, bytes_read) when a callback was given, else
\* std::cout.write(buffer, bytes_read): what reaches the sink, and where
Forward(buf, n) ==
    LET to == IF data_callback_ THEN "callback" ELSE "stdout"
    IN  [i \in 1..n |-> [to |-> to, byte |-> buf[i]]]

\* the worker is at serial_.Read, or at the serial_.GetLastError() of its
\* error branch, which comes after the locked block has ended
WorkerUsesTransport ==
    \/ monitor_thread_ = "reading"
    \/ monitor_thread_ = "handle" /\ bytes_read < 0

\* what the worker does with bytes_read: the sink, the error exit, or nothing
Monitor_Handle ==
    /\ monitor_thread_ = "handle"
    /\ IF bytes_read > 0
       THEN /\ sink' = sink \o Forward(buffer, bytes_read)
            /\ monitor_thread_' = "sleep"
       ELSE IF bytes_read < 0
       THEN /\ monitor_thread_' = "exited"
            /\ UNCHANGED sink
       ELSE /\ monitor_thread_' = "sleep"
            /\ UNCHANGED sink
    /\ bytes_read' = 0
    /\ buffer' = <<>>
    /\ UNCHANGED <<is_connected_, port_name_, last_error_, monitoring_active_,
                   serial_mutex_, data_callback_, is_open_, caller, port, trace>>
    /\ UNCHANGED bootloader_ready

\* sleep_for(10 ms) at the end of the loop body
Monitor_Sleep ==
    /\ monitor_thread_ = "sleep"
    /\ monitor_thread_' = "loop"
    /\ UNCHANGED <<is_connected_, port_name_, last_error_, monitoring_active_,
                   serial_mutex_, data_callback_, is_open_, caller, worker,
                   port, trace, sink>>
    /\ UNCHANGED bootloader_ready

(***************************************************************************)
(* The environment.                                                        *)
(***************************************************************************)
\* the device sends a byte nobody asked for
DeviceEmit(b) ==
    /\ pc = "idle"
    /\ is_open_
    /\ line_ok
    /\ Len(rx) < MaxRx
    /\ Len(rx) + Len(buffer) + Len(sink) < MaxSink
    /\ rx' = Append(rx, b)
    /\ UNCHANGED <<engine, caller, worker, inflight, line_ok, trace, sink>>
    /\ UNCHANGED bootloader_ready

\* the line breaks (the adapter is pulled) between two operations, or right
\* after a frame went out: reads and writes fail from now on
Unplug(when) ==
    /\ pc \in when
    /\ wait.elapsed = 0
    /\ wait.seen = <<>>
    /\ is_open_
    /\ line_ok
    /\ line_ok' = FALSE
    /\ rx' = <<>>
    /\ inflight' = NoReply
    /\ UNCHANGED <<engine, caller, worker, trace, sink>>
    /\ UNCHANGED bootloader_ready

\* the adapter is back once the port has been closed
Replug ==
    /\ ~is_open_
    /\ ~line_ok
    /\ line_ok' = TRUE
    /\ UNCHANGED <<engine, caller, worker, rx, inflight, trace, sink>>
    /\ UNCHANGED bootloader_ready

(***************************************************************************)
(* Specifications.                                                         *)
(***************************************************************************)
SmallFirmwares ==
    [start_address : {FLASH_BASE}, size : {0, 1}, seed : {3}]

\* every public operation in any order, with the monitor worker, against a
\* device that answers at once or not at all
Next ==
    \/ \E port_name \in Ports : Connect(port_name)
    \/ Disconnect
    \/ Disconnect_Close
    \/ \E pulse_dtr \in BOOLEAN : EnterBootloader(pulse_dtr, BasicReplies)
    \/ EnterBootloader_Ack
    \/ \E firmware \in SmallFirmwares, erase_all \in BOOLEAN :
          Flash(firmware, erase_all, BasicReplies)
    \/ EraseMemory(BasicReplies)
    \/ Flash_Erased
    \/ Flash_Loop
    \/ WriteMemory(BasicReplies)
    \/ SendCommandWithAddress(BasicReplies)
    \/ WriteMemory_Data(BasicReplies)
    \/ Flash_Written
    \/ WaitForAck
    \/ \E callback \in BOOLEAN : StartMonitoring(callback)
    \/ \E callback \in BOOLEAN : StartMonitoring_During(callback)
    \/ StopMonitoring
    \/ Join
    \/ StopMonitoring_Return
    \/ Send(<<NOISE, NOISE>>)
    \/ Return
    \/ Monitor_Loop
    \/ Monitor_Lock
    \/ Monitor_Read
    \/ Monitor_Handle
    \/ Monitor_Sleep
    \/ \E b \in {ACK, NOISE} : DeviceEmit(b)
    \/ Unplug({"idle"})
    \/ Replug

Spec == Init /\ [][Next]_vars


\* the session right after a successful Connect
InitConnected ==
    /\ is_connected_ = TRUE
    /\ port_name_ = "ttyUSB0"
    /\ last_error_ = NoError
    /\ monitoring_active_ = FALSE
    /\ serial_mutex_ = "free"
    /\ data_callback_ = FALSE
    /\ monitor_thread_ = "none"
    /\ is_open_ = TRUE
    /\ op = "none"
    /\ pc = "idle"
    /\ args = NoArgs
    /\ result = "none"
    /\ total_written = 0
    /\ address = [hi |-> 0, lo |-> 0]
    /\ wm = NoWrite
    /\ wait = NoWait
    /\ ack = FALSE
    /\ bytes_read = 0
    /\ buffer = <<>>
    /\ rx = <<>>
    /\ inflight = NoReply
    /\ line_ok = TRUE
    /\ trace = <<>>
    /\ sink = <<>>
    /\ bootloader_ready = FALSE

\* the lengths WriteMemory is called with on its own
WriteLengths == {0, 1, MAX_WRITE_LEN, MAX_WRITE_LEN + 1}

\* one protocol operation on a connected session, against a device that may
\* answer late, with noise before its answer, or not at all, on a line that
\* may break while the operation waits
ProtocolNext ==
    \/ \E pulse_dtr \in BOOLEAN : EnterBootloader(pulse_dtr, Replies)
    \/ EnterBootloader_Ack
    \/ \E firmware \in Firmwares, erase_all \in BOOLEAN :
          Flash(firmware, erase_all, Replies)
    \/ EraseMemory(Replies)
    \/ Flash_Erased
    \/ Flash_Loop
    \/ WriteMemory(Replies)
    \/ SendCommandWithAddress(Replies)
    \/ WriteMemory_Data(Replies)
    \/ Flash_Written
    \/ \E a \in StartAddresses, length \in WriteLengths, seed \in ImageSeeds :
          Call_WriteMemory(a, ImageData([size |-> length, seed |-> seed]))
    \/ Return_WriteMemory
    \/ WaitForAck
    \/ Unplug({"wait"})

ProtocolSpec == InitConnected /\ [][ProtocolNext]_vars


(***************************************************************************)
(* Properties.                                                             *)
(***************************************************************************)
Calls == SelectSeq(trace, LAMBDA e : e.ev = "call")
Writes == SelectSeq(trace, LAMBDA e : e.ev = "write")
Waits == SelectSeq(trace, LAMBDA e : e.ev = "wait")

\* a + n on 32 bits
AddrPlus(a, n) ==
    [hi |-> (a.hi + (a.lo + n) \div 65536) % 65536, lo |-> (a.lo + n) % 65536]

RECURSIVE XorRange(_, _, _)
\* s[lo] XOR ... XOR s[hi]
XorRange(s, lo, hi) ==
    IF lo > hi THEN 0
    ELSE IF lo = hi THEN s[lo]
    ELSE LET mid == (lo + hi) \div 2
         IN  Xor8(XorRange(s, lo, mid), XorRange(s, mid + 1, hi))

FlashSucceeded == op = "Flash" /\ pc = "done" /\ result = "true"

\* C1: a Flash of N bytes at S in which every exchange is ACKed makes
\* ceil(N/256) WriteMemory calls; call k (from 0) has address S + 256k (on 32
\* bits); every call but the last has 256 bytes, the last has N mod 256
\* bytes, or 256 when that is 0.
C1_Chunking ==
    FlashSucceeded =>
        LET N == args.firmware.size
            S == args.firmware.start_address
            c == Calls
        IN  /\ N > 0
            /\ Len(c) = (N + 255) \div 256
            /\ \A k \in 1..Len(c) :
                 /\ c[k].a = AddrPlus(S, 256 * (k - 1))
                 /\ c[k].b <= 256
                 /\ k < Len(c) => c[k].b = 256
                 /\ k = Len(c) => c[k].b = IF N % 256 # 0 THEN N % 256 ELSE 256

C1_Witness ==
    /\ FlashSucceeded
    /\ args.firmware.size = MaxSize
    /\ Len(Calls) = 3
    /\ Calls[3].b = MaxSize - 512

\* a chunk's WriteMemory failed: a frame did not go out whole, or a wait
\* ended without ACK, after the chunk's call
FailureAt(i) ==
    /\ \E j \in 1..(i - 1) : trace[j].ev = "call"
    /\ \/ trace[i].ev = "write" /\ trace[i].b # trace[i].a
       \/ trace[i].ev = "wait" /\ trace[i].r # "ack"

\* C2: when the WriteMemory of chunk k fails, Flash returns failure, its
\* error names the address of chunk k (the digits after "0x" are that
\* address in hexadecimal), and nothing of a later chunk is written: the
\* failure is the last thing Flash does on the port.
C2_FailedChunk ==
    (op = "Flash" /\ pc = "done") =>
        \A i \in 1..Len(trace) :
            FailureAt(i) =>
                /\ i = Len(trace)
                /\ result = "false"
                /\ last_error_.text = "Failed to write memory at address 0x"
                /\ last_error_.arg = HexDigits(Calls[Len(Calls)].a)

\* the parts of C2 that do not depend on how the address is printed
C2_StopsAtFailedChunk ==
    (op = "Flash" /\ pc = "done") =>
        \A i \in 1..Len(trace) :
            FailureAt(i) =>
                /\ i = Len(trace)
                /\ result = "false"
                /\ last_error_.text = "Failed to write memory at address 0x"
                /\ last_error_.arg = to_string(Calls[Len(Calls)].a)

IsPrefix(p, q) == Len(p) <= Len(q) /\ p = SubSeq(q, 1, Len(p))

\* C3: EraseMemory(true) writes [0x44, 0xBB] and waits with the normal
\* timeout; only after that ACK it writes [0xFF, 0xFF, 0x00] and waits with
\* the 30 s timeout; without the first ACK the selector is never written and
\* EraseMemory returns failure.
C3_EraseSequence ==
    (op = "Flash" /\ pc = "ER_ret" /\ args.flag) =>
        LET t == trace
        IN  /\ Len(t) >= 1
            /\ t[1].ev = "write" /\ t[1].a = 2
            /\ IsPrefix(t[1].bytes, <<68, 187>>)
            /\ IF t[1].b # 2 THEN Len(t) = 1 /\ ~ack
               ELSE /\ Len(t) >= 2
                    /\ t[2].ev = "wait" /\ t[2].a = 1000
                    /\ IF t[2].r # "ack" THEN Len(t) = 2 /\ ~ack
                       ELSE /\ Len(t) >= 3
                            /\ t[3].ev = "write" /\ t[3].a = 3
                            /\ IsPrefix(t[3].bytes, <<255, 255, 0>>)
                            /\ IF t[3].b # 3 THEN Len(t) = 3 /\ ~ack
                               ELSE /\ Len(t) = 4
                                    /\ t[4].ev = "wait" /\ t[4].a = 30000
                                    /\ ack = (t[4].r = "ack")

C3_Witness ==
    /\ op = "Flash" /\ pc = "ER_ret" /\ args.flag
    /\ Len(trace) = 4
    /\ trace[3].bytes = <<255, 255, 0>>
    /\ ack

EraseAcked(i) ==
    trace[i].ev = "wait" /\ trace[i].a = 30000 /\ trace[i].r = "ack"

\* C4: in a Flash the erase exchange is complete before anything of
\* WriteMemory is sent, and when EraseMemory fails Flash returns failure with
\* the erase error and has called WriteMemory zero times.
C4_EraseFirst ==
    op = "Flash" =>
        /\ \A i \in 1..Len(trace) :
             (trace[i].ev = "call" \/ (trace[i].ev = "write" /\ i > 3)) =>
                 \E j \in 1..(i - 1) : EraseAcked(j)
        /\ (pc = "done" /\ trace # <<>> /\ ~\E j \in 1..Len(trace) : EraseAcked(j)) =>
               /\ result = "false"
               /\ last_error_.text = "Failed to erase memory"
               /\ Calls = <<>>

C4_Witness ==
    /\ op = "Flash" /\ pc = "done" /\ result = "false"
    /\ Len(trace) = 4
    /\ trace[4].ev = "wait" /\ trace[4].r = "timeout"
    /\ last_error_.text = "Failed to erase memory"

\* the data frame of WriteMemory has just gone out whole
DataFrameSent ==
    /\ pc = "wait" /\ wait.ret = "WM_ret"
    /\ wait.elapsed = 0 /\ wait.seen = <<>>

\* C5: for a payload of n bytes, 1 <= n <= 256, the data frame is n + 2
\* bytes: n - 1 as a byte, the payload in order, and the XOR of those n + 1
\* bytes; so the XOR of the whole frame is 0.
C5_DataFrame ==
    DataFrameSent =>
        LET f == trace[Len(trace)].bytes
            n == Len(wm.data)
        IN  /\ n \in 1..256
            /\ Len(f) = n + 2
            /\ f[1] = n - 1
            /\ \A i \in 1..n : f[i + 1] = wm.data[i]
            /\ f[n + 2] = XorRange(f, 1, n + 1)
            /\ XorRange(f, 1, n + 2) = 0

C5_Witness ==
    /\ DataFrameSent
    /\ Len(wm.data) = 256
    /\ trace[Len(trace)].bytes[1] = 255
    /\ trace[Len(trace)].bytes[258] # 0

\* C6: WriteMemory with a length of 0 or above 256 returns failure and
\* neither writes to the port nor reads from it.
C6_BadLength ==
    (op = "WriteMemory" /\ (Len(wm.data) = 0 \/ Len(wm.data) > 256)) =>
        /\ pc \in {"WM_begin", "WM_ret", "done"}
        /\ Writes = <<>>
        /\ Waits = <<>>
        /\ pc = "WM_ret" => ~ack
        /\ pc = "done" => result = "false"

C6_Witness ==
    /\ op = "WriteMemory" /\ pc = "done" /\ result = "false"
    /\ Len(wm.data) = 257
    /\ Len(trace) = 1


EnterBootloaderWaited ==
    op = "EnterBootloader" /\ pc = "done" /\ wait.ret = "EB_ack"

\* C7: EnterBootloader succeeds when the first byte read after the sync byte
\* is ACK, fails when it is NACK, and when no byte is ever read it fails only
\* once at least 1000 ms have passed since the wait began.
C7_Handshake ==
    EnterBootloaderWaited =>
        /\ trace[Len(trace) - 1].bytes = <<127>>
        /\ (wait.seen # <<>> /\ wait.seen[1] = 121) => result = "true"
        /\ (wait.seen # <<>> /\ wait.seen[1] = 31) => result = "false"
        /\ wait.seen = <<>> => (result = "false" /\ wait.elapsed >= 1000)

C7_Witness ==
    /\ EnterBootloaderWaited
    /\ wait.seen = <<>>
    /\ result = "false"
    /\ wait.elapsed >= 1000

\* WaitForAck has just returned to its caller
WaitReturned ==
    /\ pc = wait.ret
    /\ trace # <<>>
    /\ trace[Len(trace)].ev = "wait"

\* the bytes that have reached the port for this wait, read or not
Arrived == wait.seen \o rx

Signal(b) == b = 121 \/ b = 31

\* C8: when bytes that are neither ACK nor NACK are followed by an ACK that
\* reaches the port before the deadline, WaitForAck returns true; when only
\* such bytes arrive until the deadline has passed, it returns false.
C8_NoiseThenAck ==
    WaitReturned =>
        /\ ( /\ wait.rx_at < wait.timeout_ms
             /\ \E i \in 1..Len(Arrived) :
                  /\ Arrived[i] = 121
                  /\ \A j \in 1..(i - 1) : ~Signal(Arrived[j]) ) => ack
        /\ ( /\ wait.elapsed >= wait.timeout_ms
             /\ \A i \in 1..Len(Arrived) : ~Signal(Arrived[i]) ) => ~ack

\* what holds of WaitForAck: an ACK it reads after nothing but other bytes
\* makes it return true, and it returns false without a NACK only at or after
\* the deadline
C8_AckRead ==
    WaitReturned =>
        /\ ( /\ wait.seen # <<>>
             /\ wait.seen[Len(wait.seen)] = 121
             /\ \A j \in 1..(Len(wait.seen) - 1) : ~Signal(wait.seen[j]) ) => ack
        /\ ( ~ack /\ \A i \in 1..Len(wait.seen) : wait.seen[i] # 31 ) =>
               wait.elapsed >= wait.timeout_ms

\* C9: when StopMonitoring returns the worker thread has exited, and it does
\* not run again while monitoring stays off: no Read, no call of the sink.
\* The flag is off with the worker still alive only while the caller waits in
\* join.
C9_StopJoins ==
    /\ (op = "StopMonitoring" /\ pc \in {"SM_ret", "done"}) =>
           (monitor_thread_ = "none" /\ ~monitoring_active_)
    /\ (~monitoring_active_ /\ pc # "join") => monitor_thread_ = "none"

C9_Witness ==
    /\ op = "StopMonitoring" /\ pc = "done"
    /\ trace # <<>> /\ trace[1].ev = "join"
    /\ monitor_thread_ = "none"

\* EnterBootloader or Flash is between its first port access and its return
Foreground ==
    op \in {"EnterBootloader", "Flash"} /\ pc \notin {"idle", "done"}

\* C10: the worker is never inside its Read on the port while
\* EnterBootloader or Flash is under way.
C10_NoWorkerRead == ~(Foreground /\ monitor_thread_ = "reading")

C10_Witness ==
    /\ op = "Flash" /\ pc = "wait"
    /\ monitoring_active_
    /\ monitor_thread_ = "lock"
    /\ serial_mutex_ = "caller"


\* Flash is between two of its command/response exchanges: after the erase
\* exchange, before a chunk's WriteMemory, or after it
BetweenExchanges ==
    op = "Flash" /\ pc \in {"ER_ret", "FL_loop", "WM_begin", "WM_ret"}

\* C11 as stated: the caller holds the transport lock only during one I/O
\* call, so it does not hold it between two exchanges of a Flash, where a
\* monitor-loop Read may then take it.
C11_LockPerCall == BetweenExchanges => serial_mutex_ # "caller"

\* C11: EnterBootloader and Flash hold the transport lock from their first
\* statement to their return, so between two exchanges of one Flash the lock
\* is the caller's and a worker that wants to Read waits for it.
C11_LockWholeOperation ==
    /\ Foreground => serial_mutex_ = "caller"
    /\ BetweenExchanges => monitor_thread_ \notin {"reading"}

C11_Witness ==
    /\ BetweenExchanges
    /\ pc = "FL_loop"
    /\ monitoring_active_
    /\ monitor_thread_ = "lock"
    /\ serial_mutex_ = "caller"


\* C12: Flash writes frames to the port, and StartMonitoring starts the
\* worker, only when an EnterBootloader has succeeded since the most recent
\* successful Connect.
C12_Lifecycle ==
    /\ (op = "Flash" /\ Writes # <<>>) => bootloader_ready
    /\ (op = "StartMonitoring" /\ pc = "done" /\ result = "true") =>
           bootloader_ready

\* what the code does require of both: a connected session
C12_ConnectedOnly ==
    /\ (op = "Flash" /\ Writes # <<>>) => (is_connected_ /\ is_open_)
    /\ (op = "StartMonitoring" /\ pc = "done" /\ result = "true") =>
           is_connected_


\* the caller's step from idle into a finished Connect
ConnectStep == pc = "idle" /\ op' = "Connect" /\ pc' = "done"

\* C13: a Connect called while already connected returns false with the
\* "already connected" error and leaves the connected flag, the port name and
\* the open port, with the bytes it holds, as they were.
C13_SecondConnect ==
    [][ (ConnectStep /\ is_connected_) =>
            /\ result' = "false"
            /\ last_error_'.text = "Already connected. Disconnect first."
            /\ is_connected_'
            /\ UNCHANGED <<is_connected_, port_name_, is_open_, rx, inflight,
                           line_ok>> ]_vars

C13_Witness ==
    /\ op = "Connect" /\ pc = "done" /\ result = "false"
    /\ args.port_name = "nodev"
    /\ last_error_.text = "Already connected. Disconnect first."
    /\ is_connected_ /\ is_open_ /\ port_name_ = "ttyUSB0"


DisconnectReturned == op = "Disconnect" /\ pc = "done"

\* nothing of a session is left
Disconnected ==
    /\ ~is_connected_
    /\ ~is_open_
    /\ port_name_ = ""
    /\ ~monitoring_active_
    /\ monitor_thread_ = "none"
    /\ serial_mutex_ = "free"

\* C14: whenever Disconnect returns, the engine is disconnected, the worker
\* is stopped, the port is closed and the port name is empty; a Disconnect
\* of a disconnected engine changes no field of it; and a disconnected engine
\* whose port is there can Connect again with success.
C14_Disconnect ==
    /\ [](DisconnectReturned => Disconnected)
    /\ []((pc = "idle" /\ Disconnected /\ line_ok) =>
             ENABLED (Connect("ttyUSB0") /\ is_connected_' /\ result' = "true"))
    /\ [][ (Disconnected /\ op' = "Disconnect" /\ pc' # pc) =>
               UNCHANGED <<engine, rx, line_ok>> ]_vars

C14_Witness ==
    /\ DisconnectReturned
    /\ Disconnected
    /\ trace # <<>> /\ trace[1].ev = "join"
    /\ bootloader_ready = FALSE
    /\ data_callback_


\* the operation has just reported a failure to its caller
FailureReported ==
    /\ pc = "done"
    /\ \/ (op \in {"Connect", "EnterBootloader", "Flash", "StartMonitoring"}
             /\ result = "false")
       \/ (op = "Send" /\ result = "-1")

\* the descriptions an operation gives of its own failures
ErrorsOf(o) ==
    CASE o = "Connect" ->
           {"Already connected. Disconnect first.", "Failed to open port: "}
      [] o = "EnterBootloader" ->
           {"Not connected to any port", "Failed to pulse DTR: ",
            "Failed to send init byte", "No ACK received from bootloader"}
      [] o = "Flash" ->
           {"Not connected to any port", "Firmware data is empty",
            "Failed to erase memory", "Failed to write memory at address 0x"}
      [] o = "StartMonitoring" ->
           {"Monitoring already active", "Not connected to any port"}
      [] o = "Send" -> {"Not connected to any port"}
      [] OTHER -> {}

\* last_error_ describes the failure of operation o in the state it left
Describes(o) ==
    /\ last_error_.text \in ErrorsOf(o)
    /\ last_error_.text = "Not connected to any port" => ~is_connected_
    /\ last_error_.text = "Already connected. Disconnect first." => is_connected_

\* C15: when Connect, EnterBootloader, Flash or StartMonitoring returns false,
\* or Send returns -1, last_error_ holds a description of that failure.
C15_ErrorStored == FailureReported => Describes(op)

\* the same for the four operations that return a bool
C15_BoolOperations == (FailureReported /\ op # "Send") => Describes(op)


\* the operation returned false right after a WaitForAck that ended for the
\* reason why
FailedOn(why) ==
    /\ op \in {"EnterBootloader", "Flash"}
    /\ pc = "done" /\ result = "false"
    /\ trace # <<>>
    /\ trace[Len(trace)].ev = "wait"
    /\ trace[Len(trace)].r = why

\* the error results with which an operation ends after a NACK
NackErrors(o) ==
    IF o = "EnterBootloader" THEN {"No ACK received from bootloader"}
    ELSE IF o = "Flash"
    THEN {"Failed to erase memory", "Failed to write memory at address 0x"}
    ELSE {}

\* C16: an operation that fails on a NACK and the same operation failing on a
\* timeout end with different error results: the results of the runs that
\* fail on NACK are never the result of a run that fails on timeout.
C16_NackOrTimeout ==
    /\ FailedOn("nack") => last_error_.text \in NackErrors(op)
    /\ FailedOn("timeout") => last_error_.text \notin NackErrors(op)

\* what the code gives: one result for both, which depends on the place of
\* the failure only
C16_SameError ==
    (FailedOn("nack") \/ FailedOn("timeout")) =>
        /\ last_error_.text \in NackErrors(op)
        /\ op = "EnterBootloader" =>
               last_error_ = [text |-> "No ACK received from bootloader",
                              arg |-> <<>>]


\* Serial::Write took fewer bytes than it was given, or failed
ShortWrite(i) == trace[i].ev = "write" /\ trace[i].b # trace[i].a

\* the WriteMemory call event to which event i belongs, 0 before the first
SegmentOf(i) ==
    LET before == {j \in 1..i : trace[j].ev = "call"}
    IN  IF before = {} THEN 0 ELSE CHOOSE j \in before : \A k \in before : k <= j

\* the lengths of the frames written within segment c, in order
LengthsWritten(c) ==
    LET Pick(e) == e.ev = "write"
        idx == SelectSeq([i \in 1..Len(trace) |-> i],
                         LAMBDA i : Pick(trace[i]) /\ SegmentOf(i) = c)
    IN  [k \in 1..Len(idx) |-> trace[idx[k]].a]

\* the frames one call may write, each once: the sync byte; the erase
\* command and the selector; the command, the address and the data of a chunk
FramesOnce(c) ==
    IF c > 0 THEN <<2, 5, trace[c].b + 2>>
    ELSE IF op = "EnterBootloader" THEN <<1>>
    ELSE <<2, 3>>

\* C17: within one EnterBootloader, EraseMemory or WriteMemory call every
\* frame is written at most once, in its place; and after a Write that took
\* fewer bytes than the frame, nothing more is written or read and the
\* operation fails.
C17_NoRetry ==
    /\ \A c \in {0} \cup {i \in 1..Len(trace) : trace[i].ev = "call"} :
          IsPrefix(LengthsWritten(c), FramesOnce(c))
    /\ \A i \in 1..Len(trace) :
          ShortWrite(i) =>
              /\ i = Len(trace)
              /\ pc = "done" => result = "false"

C17_Witness ==
    /\ op = "Flash" /\ pc = "done" /\ result = "false"
    /\ Len(Calls) = 2
    /\ ShortWrite(Len(trace))
    /\ trace[Len(trace)].a = 5
    /\ trace[Len(trace)].b = 2


\* the progress figures Flash has reported, in order
Reported == SelectSeq(trace, LAMBDA e : e.ev = "progress")

\* the bytes written after k chunks of an image of n bytes
WrittenAfter(k, n) == IF 256 * k < n THEN 256 * k ELSE n

\* C18: the k-th progress figure of a Flash of N bytes is
\* floor(100 * bytes_written / N); the figures never decrease, never exceed
\* 100, and the last one of a successful Flash is 100.
C18_Progress ==
    op = "Flash" =>
        LET n == args.firmware.size
        IN  /\ \A k \in 1..Len(Reported) :
                  /\ Reported[k].a = (100 * WrittenAfter(k, n)) \div n
                  /\ Reported[k].a <= 100
                  /\ k > 1 => Reported[k - 1].a <= Reported[k].a
            /\ Len(Reported) \in {Len(Calls) - 1, Len(Calls)}
            /\ (pc = "FL_loop" \/ FlashSucceeded) => Len(Reported) = Len(Calls)
            /\ FlashSucceeded =>
                  (Reported # <<>> /\ Reported[Len(Reported)].a = 100)

C18_Witness ==
    /\ FlashSucceeded
    /\ Len(Reported) = 3
    /\ Reported[1].a = 42
    /\ Reported[2].a = 85
    /\ Reported[3].a = 100


\* C19: the bytes a worker Read returns are the next bytes the port holds;
\* every one of them is handed to the sink once, in order, to the callback
\* when there is one and to standard output otherwise; a Read that returns 0
\* hands over nothing and the worker goes on polling; and nothing else
\* writes to the sink.
C19_Forwarding ==
    [][ /\ (monitor_thread_ = "reading" /\ monitor_thread_' = "handle"
              /\ bytes_read' >= 0) =>
               (bytes_read' = Len(buffer') /\ rx = buffer' \o rx')
        /\ (monitor_thread_ = "handle" /\ monitor_thread_' # "handle") =>
               IF bytes_read > 0
               THEN /\ Len(sink') = Len(sink) + bytes_read
                    /\ SubSeq(sink', 1, Len(sink)) = sink
                    /\ \A i \in 1..bytes_read :
                          /\ sink'[Len(sink) + i].byte = buffer[i]
                          /\ sink'[Len(sink) + i].to =
                                 (IF data_callback_ THEN "callback" ELSE "stdout")
                    /\ monitor_thread_' = "sleep"
               ELSE /\ sink' = sink
                    /\ bytes_read = 0 => monitor_thread_' = "sleep"
        /\ (monitor_thread_ = "sleep" /\ monitor_thread_' # "sleep") =>
               monitor_thread_' = "loop"
        /\ sink' # sink => (monitor_thread_ = "handle" \/ sink' = <<>>)
      ]_vars

C19_Witness ==
    /\ monitoring_active_
    /\ monitor_thread_ = "sleep"
    /\ Len(sink) = 2
    /\ sink[1].byte = 121 /\ sink[2].byte = 85
    /\ sink[1].to = "stdout"


\* the writes and waits that WriteMemory call c has made, in order
Exchange(c) ==
    LET later == {j \in (c + 1)..Len(trace) : trace[j].ev \notin {"write", "wait"}}
        stop == IF later = {} THEN Len(trace) + 1
                ELSE CHOOSE j \in later : \A k \in later : j <= k
    IN  SubSeq(trace, c + 1, stop - 1)

\* WriteMemory call c has returned true
Accepted(c) ==
    LET n == c + Len(Exchange(c))
    IN  \/ (n < Len(trace) /\ trace[n + 1].ev = "progress")
        \/ (n = Len(trace) /\ op = "WriteMemory" /\ pc = "done" /\ result = "true")

\* the four bytes of a 32-bit address, most significant first
AddressBytes(a) ==
    <<a.hi \div 256, a.hi % 256, a.lo \div 256, a.lo % 256>>

\* C20: a WriteMemory call writes [0x31, 0xCE] and waits for ACK; only after
\* that ACK it writes the address, most significant byte first, followed by
\* the XOR of its four bytes, and waits again; only after both ACKs it writes
\* the data frame and waits a third time; a call that succeeds has had
\* exactly three waits, all ended by ACK.
C20_AddressedCommand ==
    \A c \in {i \in 1..Len(trace) : trace[i].ev = "call"} :
        LET e == Exchange(c)
            Whole(k) == e[k].ev = "write" /\ e[k].b = e[k].a
            Acked(k) == e[k].ev = "wait" /\ e[k].a = 1000 /\ e[k].r = "ack"
        IN  /\ Len(e) <= 6
            /\ \A k \in 1..Len(e) :
                  e[k].ev = (IF k % 2 = 1 THEN "write" ELSE "wait")
            /\ \A k \in 2..Len(e) :
                  IF k % 2 = 0 THEN Whole(k - 1) /\ e[k].a = 1000
                  ELSE Acked(k - 1)
            /\ Len(e) >= 1 =>
                  (e[1].a = 2 /\ IsPrefix(e[1].bytes, <<49, 206>>))
            /\ Len(e) >= 3 =>
                  /\ e[3].a = 5
                  /\ IsPrefix(e[3].bytes,
                              AddressBytes(trace[c].a)
                                \o <<XorRange(AddressBytes(trace[c].a), 1, 4)>>)
            /\ Len(e) >= 5 =>
                  (e[5].a = trace[c].b + 2 /\ e[5].bytes[1] = (trace[c].b - 1) % 256)
            /\ Accepted(c) => (Len(e) = 6 /\ Acked(2) /\ Acked(4) /\ Acked(6))

C20_Witness ==
    /\ op = "WriteMemory" /\ pc = "done" /\ result = "true"
    /\ Len(trace) = 7
    /\ trace[1].a = [hi |-> 2048, lo |-> 0]
    /\ trace[2].bytes = <<49, 206>>
    /\ trace[4].bytes = <<8, 0, 0, 0, 8>>
    /\ Accepted(1)


\* C21: WaitForAck returns on the first ACK or NACK it reads: true for ACK,
\* false for NACK, at once; every byte it read before that one is neither,
\* and it reads no byte after it.  When it has read neither, it returns false
\* and only at or after the deadline.
C21_FirstSignalDecides ==
    WaitReturned =>
        LET seen == wait.seen
            n == Len(seen)
            why == trace[Len(trace)].r
        IN  /\ \A i \in 1..(n - 1) : ~Signal(seen[i])
            /\ (n > 0 /\ seen[n] = 121) => (ack /\ why = "ack")
            /\ (n > 0 /\ seen[n] = 31) =>
                   (~ack /\ why = "nack" /\ (n = 1 => wait.elapsed = wait.rx_at))
            /\ (n = 0 \/ ~Signal(seen[n])) =>
                   (~ack /\ why = "timeout" /\ wait.elapsed >= wait.timeout_ms)

C21_Witness ==
    /\ WaitReturned
    /\ ack
    /\ wait.seen = <<85, 121>>
    /\ rx = <<85>>
    /\ wait.elapsed < wait.timeout_ms


\* the port calls of an EnterBootloader with a reset, up to the flush
ResetSteps ==
    << [ev |-> "dtr", bytes |-> <<>>, a |-> 0, b |-> 0, r |-> "ok"],
       [ev |-> "sleep", bytes |-> <<>>, a |-> 100, b |-> 0, r |-> ""],
       [ev |-> "dtr", bytes |-> <<>>, a |-> 1, b |-> 0, r |-> "ok"],
       [ev |-> "sleep", bytes |-> <<>>, a |-> 100, b |-> 0, r |-> ""] >>

\* C22: a connected EnterBootloader with a reset pulls DTR low for 100 ms,
\* raises it and waits 100 ms; then, with or without a reset, it flushes,
\* writes the one byte 0x7F and waits for ACK with a 1000 ms timeout.  When
\* the pulse fails it returns false with neither flush nor write; without a
\* reset it touches no control line.
C22_HandshakeOrder ==
    (op = "EnterBootloader" /\ is_connected_) =>
        LET pulsed == args.flag
            failed == pulsed /\ trace[1].r = "failed"
            rest == IF pulsed THEN SubSeq(trace, 5, Len(trace)) ELSE trace
        IN  /\ trace # <<>>
            /\ pulsed => IsPrefix(SubSeq(trace, 1, 1),
                                  <<[ResetSteps[1] EXCEPT !.r = trace[1].r]>>)
            /\ failed =>
                  /\ Len(trace) = 1
                  /\ pc = "done" /\ result = "false"
                  /\ last_error_.text = "Failed to pulse DTR: "
            /\ (pulsed /\ ~failed) => SubSeq(trace, 1, 4) = ResetSteps
            /\ ~failed =>
                  /\ \A i \in 1..Len(rest) : rest[i].ev # "dtr"
                  /\ Len(rest) \in {2, 3}
                  /\ rest[1].ev = "flush"
                  /\ rest[2].ev = "write" /\ rest[2].a = 1
                  /\ IsPrefix(rest[2].bytes, <<127>>)
                  /\ Len(rest) = 3 =>
                        /\ rest[2].bytes = <<127>>
                        /\ rest[3].ev = "wait" /\ rest[3].a = 1000
                  /\ (pc = "wait" /\ Len(rest) = 2) => wait.timeout_ms = 1000

C22_Witness ==
    /\ op = "EnterBootloader" /\ pc = "done" /\ result = "true"
    /\ args.flag
    /\ Len(trace) = 7
    /\ trace[1].a = 0 /\ trace[3].a = 1

\* the reset that fails: nothing follows the first DTR call
C22_WitnessFailedPulse ==
    /\ op = "EnterBootloader" /\ pc = "done" /\ result = "false"
    /\ args.flag /\ is_connected_
    /\ Len(trace) = 1 /\ trace[1].r = "failed"


\* the timeouts of the waits of an erase, in order
EraseTimeouts == <<1000, 30000>>

NeedSession == {"EnterBootloader", "Flash", "StartMonitoring", "Send"}

\* C24: without a session EnterBootloader, Flash, StartMonitoring and Send
\* return false (Send: -1) with the error "Not connected to any port", write
\* nothing, start no worker and leave the engine disconnected; Flash of an
\* empty image on a session fails before any byte is written.
C24_NeedsSession ==
    /\ (op \in NeedSession /\ ~is_connected_) =>
          /\ pc = "done"
          /\ result = (IF op = "Send" THEN "-1" ELSE "false")
          /\ last_error_ = Error("Not connected to any port")
          /\ trace = <<>>
          /\ monitor_thread_ = "none" /\ ~monitoring_active_
          /\ ~is_open_
    /\ (op = "Flash" /\ is_connected_ /\ args.firmware.size = 0) =>
          /\ pc = "done" /\ result = "false"
          /\ last_error_ = Error("Firmware data is empty")
          /\ trace = <<>>

C24_Witness ==
    /\ op = "Send" /\ ~is_connected_ /\ result = "-1"
    /\ last_error_.text = "Not connected to any port"

C24_WitnessEmptyImage ==
    /\ op = "Flash" /\ is_connected_ /\ args.firmware.size = 0
    /\ pc = "done" /\ trace = <<>>


\* the k-th address frame and the k-th data frame a Flash has written
AddressFrameOf(k) == Writes[3 * k + 1]
DataFrameOf(k) == Writes[3 * k + 2]

\* the payload of a data frame: what lies between the length byte and the
\* checksum
Payload(frame) == SubSeq(frame, 2, Len(frame) - 1)

\* the payloads of the first k data frames, one after the other
Payloads[k \in 0..3] ==
    IF k = 0 THEN <<>> ELSE Payloads[k - 1] \o Payload(DataFrameOf(k).bytes)

\* the address an address frame carries, most significant byte first
AddressIn(frame) ==
    [hi |-> frame[1] * 256 + frame[2], lo |-> frame[3] * 256 + frame[4]]

\* C25: in a Flash in which every exchange is ACKed the payloads of the data
\* frames, in the order sent, make up the image byte for byte, and the
\* payload that starts at offset o of the image goes to address start + o.
C25_WholeImage ==
    FlashSucceeded =>
        LET image == ImageData(args.firmware)
            S == args.firmware.start_address
            n == Len(Calls)
        IN  /\ Len(Writes) = 2 + 3 * n
            /\ Payloads[n] = image
            /\ \A k \in 1..n :
                  /\ DataFrameOf(k).b = Len(DataFrameOf(k).bytes)
                  /\ AddressFrameOf(k).b = 5
                  /\ AddressIn(AddressFrameOf(k).bytes)
                        = AddrPlus(S, Len(Payloads[k - 1]))

C25_Witness ==
    /\ FlashSucceeded
    /\ args.firmware.size = 600
    /\ Len(Payloads[3]) = 600
    /\ Payload(DataFrameOf(1).bytes) # Payload(DataFrameOf(2).bytes)


\* the start address 0xFFFFFF00: 256 bytes below the end of the address space
NearTop == [hi |-> 65535, lo |-> 65280]

\* the last thing Flash did on the port went wrong
PortFailure ==
    /\ trace # <<>>
    /\ LET e == trace[Len(trace)]
       IN  \/ e.ev = "write" /\ e.b # e.a
           \/ e.ev = "wait" /\ e.r # "ack"

\* C26: the address of chunk k of a Flash is (start + 256 k) mod 2^32, in the
\* call and in the address frame written; from 0xFFFFFF00 the second chunk
\* goes to 0x00000000 and the third to 0x00000100; and Flash fails only
\* when a write or a wait on the port failed, never because of the wrap.
C26_AddressWraps ==
    (op = "Flash" /\ args.firmware.size > 0) =>
        LET S == args.firmware.start_address
        IN  /\ \A k \in 1..Len(Calls) :
                  LET sum == S.lo + 256 * (k - 1)
                      a == [hi |-> (S.hi + sum \div 65536) % 65536,
                            lo |-> sum % 65536]
                  IN  /\ Calls[k].a = a
                      /\ (Len(Writes) >= 3 * k + 1
                            /\ AddressFrameOf(k).b = AddressFrameOf(k).a) =>
                             AddressIn(AddressFrameOf(k).bytes) = a
                      /\ (S = NearTop /\ k >= 2) =>
                             Calls[k].a = [hi |-> 0, lo |-> 256 * (k - 2)]
            /\ (pc = "done" /\ result = "false") => PortFailure

C26_Witness ==
    /\ FlashSucceeded
    /\ args.firmware.start_address = NearTop
    /\ args.firmware.size = 600
    /\ Calls[3].a = [hi |-> 0, lo |-> 256]
    /\ AddressFrameOf(2).bytes = <<0, 0, 0, 0, 0>>


\* the worker is somewhere in the loop of MonitorThreadFunc
WorkerRunning == monitor_thread_ \in {"loop", "lock", "reading", "handle", "sleep"}

\* C27: IsMonitoring() is true only while the worker runs its loop: a worker
\* that left the loop by itself has cleared the flag, and no StartMonitoring
\* on a session is refused while no worker runs.
C27_FlagFollowsWorker ==
    /\ monitoring_active_ => WorkerRunning
    /\ (op = "StartMonitoring" /\ pc = "done" /\ result = "false"
          /\ is_connected_) => WorkerRunning


\* C28: whenever the worker uses the transport object, to Read or to fetch
\* the error text of a failed Read, it holds the transport lock; so it never
\* does so while the caller thread holds the lock.
C28_WorkerLocked ==
    /\ WorkerUsesTransport => serial_mutex_ = "worker"
    /\ ~(WorkerUsesTransport /\ serial_mutex_ = "caller")

\* the error text is fetched while the caller thread is inside Flash
C28_NoOverlap == ~(WorkerUsesTransport /\ serial_mutex_ = "caller")


\* C29: the worker is inside serial_.Read only on a connected session with
\* an open port; and Disconnect reaches its lock, behind which it closes the
\* port, only after the worker has been joined.
C29_ReadOnOpenPort ==
    /\ monitor_thread_ = "reading" => (is_connected_ /\ is_open_)
    /\ (op = "Disconnect" /\ pc = "DC_lock") => monitor_thread_ = "none"
    /\ (op = "Disconnect" /\ pc = "done") => ~WorkerRunning

\* Disconnect waits in join() while the worker is inside Read
C29_Witness ==
    /\ op = "Disconnect" /\ pc = "join"
    /\ monitor_thread_ = "reading"
    /\ serial_mutex_ = "worker"
    /\ is_open_


(***************************************************************************)
(* Progress.  The caller thread and the worker are two running threads:    *)
(* each goes on whenever it is not blocked (in lock(), in join()).  Calls  *)
(* of the public operations and the caller picking up a result are not     *)
(* forced.                                                                 *)
(***************************************************************************)
\* noise for as long as a WaitForAck with the default timeout reads: one byte
\* per iteration, an iteration every POLL_SLEEP milliseconds
PersistentNoise == Noise(DEFAULT_ACK_TIMEOUT \div POLL_SLEEP + 1)

\* a device that answers at once, not at all, or with noise without end
LiveReplies == BasicReplies \cup {[bytes |-> PersistentNoise, at |-> 0]}

LiveFirmwares ==
    [start_address : {FLASH_BASE}, size : {CHUNK_SIZE + 1}, seed : {3}]

\* the caller thread goes on inside the operation it has called
CallerStep ==
    \/ EnterBootloader_Ack
    \/ EraseMemory(LiveReplies)
    \/ Flash_Erased
    \/ Flash_Loop
    \/ WriteMemory(LiveReplies)
    \/ SendCommandWithAddress(LiveReplies)
    \/ WriteMemory_Data(LiveReplies)
    \/ Flash_Written
    \/ WaitForAck
    \/ Join
    \/ StopMonitoring_Return
    \/ Disconnect_Close

\* the worker goes on in MonitorThreadFunc
WorkerStep ==
    \/ Monitor_Loop
    \/ Monitor_Lock
    \/ Monitor_Read
    \/ Monitor_Handle
    \/ Monitor_Sleep

\* one session, from a successful Connect to its Disconnect; as in main.cpp,
\* Flash is called in a session that is not monitoring
LiveNext ==
    \/ Disconnect
    \/ \E pulse_dtr \in BOOLEAN : EnterBootloader(pulse_dtr, LiveReplies)
    \/ /\ monitor_thread_ = "none"
       /\ \E firmware \in LiveFirmwares : Flash(firmware, TRUE, LiveReplies)
    \/ StartMonitoring(TRUE)
    \/ StopMonitoring
    \/ Return
    \/ CallerStep
    \/ WorkerStep
    \/ DeviceEmit(NOISE)
    \/ Unplug({"idle", "wait"})

LiveSpec ==
    /\ InitConnected
    /\ [][LiveNext]_vars
    /\ WF_vars(CallerStep)
    /\ WF_vars(WorkerStep)


\* the caller thread is not inside an operation
Returned == pc \in {"idle", "done"}

\* the waits of one erase and of the chunks called so far, at most
ExchangeBound == 2 + 3 * Len(Calls)

\* C30: with both threads running, every operation returns: a WaitForAck
\* never waits on after its timeout has passed, whatever the port delivers;
\* a Flash of N bytes makes at most ceil(N/256) WriteMemory calls after one
\* erase; StopMonitoring and Disconnect, called with the worker inside Read
\* or about to take the lock, come back with the worker joined; the worker
\* always leaves Read, and the caller always lets go of the lock.
C30_Progress ==
    /\ [](pc = "wait" => wait.elapsed < wait.timeout_ms + POLL_SLEEP)
    /\ [](op = "Flash" =>
            /\ Len(Calls) <= (args.firmware.size + 255) \div 256
            /\ Len(Waits) <= ExchangeBound)
    /\ []((pc = "done" /\ op \in {"StopMonitoring", "Disconnect"}) =>
            monitor_thread_ = "none")
    /\ [](Returned => serial_mutex_ # "caller")
    /\ []<>Returned
    /\ []<>(monitor_thread_ # "reading")

\* StopMonitoring is called while the worker is inside Read
C30_Witness ==
    /\ op = "StopMonitoring" /\ pc = "join"
    /\ monitor_thread_ = "reading"
    /\ serial_mutex_ = "worker"

\* a WaitForAck that read noise until its timeout
C30_WitnessNoise ==
    /\ WaitReturned /\ ~ack
    /\ Len(wait.seen) >= 100
    /\ wait.elapsed >= wait.timeout_ms

=============================================================================
